---- MODULE Spec2Model ----
(***************************************************************************)
(* SBMS Windows Host (src/sbms_windows_host.py): the contact store, the    *)
(* message store, their JSON backing files, and the request handlers of    *)
(* the device port (BluetoothServer) and the console port (TCPServer).     *)
(*                                                                         *)
(* Spec      runs every request handler as one step, on a disk that takes  *)
(*           every write.                                                  *)
(* SpecMsg   is Spec with sync_contacts requests of one entry at most.     *)
(* SpecFault is Spec with failing writes and with crashes of the process.  *)
(* SpecBook  is Spec with one message id and one message text.             *)
(* SpecRace  is stop() of a server called while its start() is binding,   *)
(*           both line by line.                                            *)
(* SpecSave  is Spec with failing writes and sync_contacts requests of one  *)
(*           entry at most.                                                *)
(* SpecConc  runs the session threads step by step, so that the handlers   *)
(*           of different connections interleave.                          *)
(* SpecSync  runs sync_from_device entry by entry next to get_contacts      *)
(*           requests of other connections.                                *)
(* SpecField runs send_message and sms_status on requests that lack        *)
(*           fields.                                                       *)
(* SpecFrame runs the receive loop of _handle_client on a byte stream that *)
(*           the transport cuts into reads.                                *)
(* SpecIdent runs identify, send_message and get_status on connections     *)
(*           whose identify requests are kept in their trace.              *)
(* SpecLife  runs SBMSHost.start, the stop() calls and the sessions between *)
(*           them, each call as one step.                                  *)
(* SpecStop  runs stop() statement by statement next to the accept loop.   *)
(* SpecSyncs runs sync_from_device entry by entry on two connections at    *)
(*           once.                                                         *)
(* SpecServe runs the session threads of three connections side by side,   *)
(*           with reads that fail and requests whose handling raises.      *)
(***************************************************************************)
EXTENDS Integers, Sequences, FiniteSets, TLC

\* ---------------------------------------------------------------- bounds
\* longest contact list a sync_contacts request carries
MaxContacts == 2
\* save failures and crashes injected in one behaviour
MaxFaults == 1
\* send_message requests each device connection issues in SpecConc
SendsPerConn == 2
\* bytes (in slices) a client socket holds unread in SpecFrame
MaxWire == 6
\* turns of the receive loop per connection in SpecFrame
MaxReads == 3
\* stop() calls each server takes in SpecLife and SpecStop
MaxStops == 2

\* ------------------------------------------------------------ input sets
None == "None"

\* client addresses of the device port and of the console port
BTConns == {"bt1", "bt2"}
TCPConns == {"cc1"}
Conns == BTConns \cup TCPConns
\* the connections of Spec and SpecFault, where handlers run one at a time
SeqBT == {"bt1"}
SeqTCP == {"cc1"}

MsgIds == {"m1", "m2"}
Texts == {"hi", "yo"}
Numbers == {"+46700000000"}
\* status values an sms_status request may carry (any JSON string)
Statuses == {"pending", "sent", "delivered", "failed", "bogus"}
Phones == {"+46701234567", "+46702345678"}
Names == {"Alice", "Bob"}

\* One element of the 'contacts' list of a sync_contacts request: a JSON
\* object (dict = TRUE) whose phone may be missing or empty (None), or a
\* JSON value that is no object (dict = FALSE).
Entries ==
    [dict : {TRUE}, phone : Phones, name : Names]
        \cup {[dict |-> TRUE, phone |-> None, name |-> "Alice"],
              [dict |-> FALSE, phone |-> None, name |-> None]}

ContactLists == UNION {[1..n -> Entries] : n \in 0..MaxContacts}

\* the ids the client of each device connection gives its messages in
\* SpecConc, in the order it sends them
IdPool ==
    [bt1 |-> <<"bt1-1", "bt1-2", "bt1-3">>,
     bt2 |-> <<"bt2-1", "bt2-2", "bt2-3">>]
\* the status values of the sms_status requests of SpecConc
ConcStatuses == {"sent"}
\* the messages they report on: the first one of each device connection
ConcReported == {IdPool[c][1] : c \in BTConns}

\* the send_message requests of SpecFault
FaultIds == {"m1"}
FaultTexts == {"hi"}

\* the sync_contacts requests of SpecFault: every contact is named Alice
FaultLists == {L \in ContactLists : \A j \in 1..Len(L) : L[j].name # "Bob"}

\* what the environment does to a write of a backing file
DiskOutcomes == {"ok", "open_failed", "write_failed"}

\* ------------------------------------------------------------- variables
VARIABLES
    contacts,       \* ContactDatabase.contacts: phone -> contact record
    messages,       \* MessageQueue.messages: id -> message record
    contactsFile,   \* contacts.json
    messagesFile,   \* messages.json
    sess,           \* per client address: "closed" or "open"
    resp,           \* the last response written to a client socket
    faults,         \* save failures and crashes injected so far
    pc,             \* SpecConc: where each session thread stands
    cur,            \* SpecConc: the request a session thread is processing
    iter,           \* SpecConc: key set a running json.dump started to iterate
    sent,           \* SpecConc: send_message requests issued per connection
    idx,            \* SpecSync: entries a running sync_from_device got through
    wire,           \* SpecFrame: bytes that reached a client socket, unread
    trace,          \* SpecFrame: what each session handler did, read by read
    host,           \* SpecLife: how far SBMSHost.start and stop have got
    running,        \* SpecLife, SpecStop: the running flag of each server
    listener,       \* SpecLife, SpecStop: the server_socket of each server
    clients,        \* SpecLife, SpecStop: the keys of each server's clients
    stops,          \* SpecLife, SpecStop: stop() calls that have returned
    accepting,      \* SpecStop: where each _accept_connections loop stands
    stopping        \* SpecStop: where a running stop() call stands

storeVars == <<contacts, messages, contactsFile, messagesFile>>
concVars == <<pc, cur, iter, sent, idx>>
frameVars == <<wire, trace>>
serverVars == <<host, running, listener, stops, accepting, stopping>>
lifeVars == <<serverVars, clients>>
threadVars == <<concVars, frameVars, lifeVars>>
vars == <<contacts, messages, contactsFile, messagesFile, sess, resp, faults,
          pc, cur, iter, sent, idx, wire, trace, host, running, listener,
          clients, stops, accepting, stopping>>

\* ------------------------------------------------------------ dictionaries
EmptyMap == [k \in {} |-> None]

Put(d, k, v) == [x \in (DOMAIN d) \cup {k} |-> IF x = k THEN v ELSE d[x]]

\* json.dump turns a None key into the string "null"; string keys are kept
JsonKey(k) == IF k = None THEN "null" ELSE k

Dump(d) ==
    [s \in {JsonKey(k) : k \in DOMAIN d} |->
        d[CHOOSE k \in DOMAIN d : JsonKey(k) = s]]

MissingFile == [state |-> "missing", data |-> EmptyMap]
CorruptFile == [state |-> "corrupt", data |-> EmptyMap]

\* a _load that keeps a record of what it could not parse
LoadPartial(file) ==
    IF file.state = "ok" THEN file.data
    ELSE [k \in {"null"} |-> [id |-> "null", status |-> file.state]]

\* _load: the parsed file, or an empty store when the file is missing or
\* cannot be parsed
Load(file) == IF file.state = "ok" THEN file.data ELSE EmptyMap

\* _save: open(path, 'w') truncates, json.dump writes; any exception is
\* logged and swallowed
Save(file, store, disk) ==
    CASE disk = "ok" -> [state |-> "ok", data |-> Dump(store)]
      [] disk = "open_failed" -> file
      [] disk = "write_failed" -> CorruptFile

\* --------------------------------------------------------- ContactDatabase
\* the record of add_contact with the phone in place of the name
ContactRecordUnnamed(phone, name) == [name |-> phone, phone |-> phone]

ContactRecord(phone, name) == [name |-> name, phone |-> phone]

\* add_contact with the record filed under the contact's name
AddContactByName(cs, phone, name) == Put(cs, name, ContactRecord(phone, name))

\* add_contact: the dictionary assignment
AddContact(cs, phone, name) == Put(cs, phone, ContactRecord(phone, name))

\* sync_from_device, iteration on entry e: contact.get raises on a value
\* that is no dict
Raises(e) == ~e.dict

\* an iteration that files every entry, with or without a phone
ApplyEntryUnguarded(cs, e) == AddContact(cs, e.phone, e.name)

\* sync_from_device, iteration on entry e: "if phone:" guards add_contact
ApplyEntry(cs, e) ==
    IF e.phone # None THEN AddContact(cs, e.phone, e.name) ELSE cs

\* the entries the loop of sync_from_device gets through: all of them, or
\* those before the first one that raises
RECURSIVE Reached(_, _)
Reached(L, k) ==
    IF k = 0 THEN 0
    ELSE LET r == Reached(L, k - 1) IN
         IF r = k - 1 /\ ~Raises(L[k]) THEN k ELSE r

SyncRaises(L) == Reached(L, Len(L)) < Len(L)

\* the store after the first k iterations of the loop of sync_from_device
RECURSIVE SyncPrefix(_, _, _)
SyncPrefix(cs, L, k) ==
    IF k = 0 THEN cs ELSE ApplyEntry(SyncPrefix(cs, L, k - 1), L[k])

\* the number of add_contact calls (hence saves) in the first k iterations
Saves(L, k) == Cardinality({j \in 1..k : L[j].phone # None})

\* contacts.json after the first k iterations, every save meeting `disk`
SyncFile(file, cs, L, k, disk) ==
    IF Saves(L, k) = 0 THEN file ELSE Save(file, SyncPrefix(cs, L, k), disk)

\* ------------------------------------------------------------ MessageQueue
\* the record of add_message with the status of the ack in place of "pending"
MessageRecordQueued(id, to, text, from) ==
    [id |-> id, from_device |-> from, to_number |-> to, text |-> text,
     status |-> "queued", retry_count |-> 0]

\* the record of add_message without the id
MessageRecordUntagged(id, to, text, from) ==
    [id |-> None, from_device |-> from, to_number |-> to, text |-> text,
     status |-> "pending", retry_count |-> 0]

\* the record add_message stores
MessageRecord(id, to, text, from) ==
    [id |-> id, from_device |-> from, to_number |-> to, text |-> text,
     status |-> "pending", retry_count |-> 0]

\* add_message that counts every repeated id as a retry
AddMessageCountingResends(ms, id, to, text, from) ==
    Put(ms, id,
        [MessageRecord(id, to, text, from) EXCEPT
            !.retry_count = IF id \in DOMAIN ms
                              THEN ms[id].retry_count + 1 ELSE 0])

\* add_message with the record filed under the recipient's number
AddMessageByNumber(ms, id, to, text, from) ==
    Put(ms, to, MessageRecord(id, to, text, from))

\* add_message: the dictionary assignment
AddMessage(ms, id, to, text, from) ==
    Put(ms, id, MessageRecord(id, to, text, from))

\* update_status that moves a message out of "pending" only
UpdateStatusFromPending(ms, id, status) ==
    IF id \in DOMAIN ms /\ ms[id].status = "pending"
    THEN [ms EXCEPT ![id].status = status] ELSE ms

\* update_status that applies only pending -> sent, pending -> failed and
\* sent -> delivered
UpdateStatusForwardOnly(ms, id, status) ==
    IF /\ id \in DOMAIN ms
       /\ \/ ms[id].status = "pending" /\ status \in {"sent", "failed"}
          \/ ms[id].status = "sent" /\ status = "delivered"
    THEN [ms EXCEPT ![id].status = status] ELSE ms

\* update_status that files a record for an id it does not know
UpdateStatusCreating(ms, id, status) ==
    IF id \in DOMAIN ms THEN [ms EXCEPT ![id].status = status]
    ELSE Put(ms, id, [MessageRecord(id, None, None, None) EXCEPT
                         !.status = status])

\* update_status that drops a message once it is reported delivered
UpdateStatusPurging(ms, id, status) ==
    IF id \in DOMAIN ms /\ status = "delivered"
    THEN [k \in DOMAIN ms \ {id} |-> ms[k]]
    ELSE IF id \in DOMAIN ms THEN [ms EXCEPT ![id].status = status] ELSE ms

\* update_status: the dictionary assignment, for a known id only
UpdateStatus(ms, id, status) ==
    IF id \in DOMAIN ms THEN [ms EXCEPT ![id].status = status] ELSE ms

\* ------------------------------------------------------------- responses
\* no response: nothing was written for the last request
NoMessage == [type |-> None]

\* BluetoothServer._process_message: the response of each branch
BTResponse(m, cs) ==
    CASE m.type = "identify" -> [type |-> "ack", status |-> "identified"]
      [] m.type = "get_contacts" -> [type |-> "contacts", data |-> cs]
      [] m.type = "sync_contacts" -> [type |-> "ack", status |-> "synced"]
      [] m.type = "send_message" ->
            [type |-> "ack", status |-> "queued", id |-> m.id]
      [] m.type = "sms_status" -> [type |-> "ack", status |-> "received"]
      [] m.type = "ping" -> [type |-> "pong"]
      [] OTHER -> [type |-> "error", message |-> "Unknown message type"]

\* TCPServer._process_message
TCPResponse(m, cs, ms) ==
    CASE m.type = "get_status" ->
            [type |-> "status", contacts_count |-> Cardinality(DOMAIN cs),
             messages_count |-> Cardinality(DOMAIN ms),
             devices_connected |-> 1]
      [] m.type = "get_contacts" -> [type |-> "contacts", data |-> cs]
      [] m.type = "get_messages" -> [type |-> "messages", data |-> ms]
      [] OTHER -> [type |-> "error", message |-> "Unknown request"]

\* request types that reach the final else of BluetoothServer._process_message
BTUnknownTypes == {"get_messages", "get_status", "frobnicate"}
\* request types that reach the final else of TCPServer._process_message
TCPUnknownTypes == {"send_message", "sync_contacts", "frobnicate"}

\* ---------------------------------------------------------------- Init
\* the two servers of the host, and the server of each client address
Ports == {"bt", "tcp"}
PortOf(c) == IF c \in BTConns THEN "bt" ELSE "tcp"

\* self.clients after a connection is stored in it
Stored(c) == [clients EXCEPT ![PortOf(c)] = @ \cup {c}]

\* a finally block that leaves the client map as it is
DroppedNothing(cs) == clients
\* a finally block that clears the client map
DroppedAll(cs) == [p \in Ports |-> {}]

\* self.clients after the finally blocks of the handlers of cs
Dropped(cs) == [p \in Ports |-> clients[p] \ cs]

\* an accept loop that holds no connection, at the given place
Acceptor(at) == [at |-> at, conn |-> None]

\* SBMSHost() on a machine without backing files
Constructed ==
    /\ contactsFile = MissingFile
    /\ messagesFile = MissingFile
    /\ contacts = Load(MissingFile)
    /\ messages = Load(MissingFile)
    /\ sess = [c \in Conns |-> "closed"]
    /\ resp = NoMessage
    /\ faults = 0
    /\ pc = [c \in Conns |-> "recv"]
    /\ cur = [c \in Conns |-> NoMessage]
    /\ iter = [c \in Conns |-> {}]
    /\ sent = [c \in Conns |-> 0]
    /\ idx = [c \in Conns |-> 0]
    /\ wire = [c \in Conns |-> <<>>]
    /\ trace = [c \in Conns |-> <<>>]
    /\ clients = [p \in Ports |-> {}]
    /\ stops = [p \in Ports |-> 0]
    /\ stopping = [p \in Ports |-> "idle"]

\* the constructed host with both servers listening, each accept loop
\* blocked in accept()
Init ==
    /\ Constructed
    /\ host = "started"
    /\ running = [p \in Ports |-> TRUE]
    /\ listener = [p \in Ports |-> "listening"]
    /\ accepting = [p \in Ports |-> Acceptor("accept")]

\* the constructed host before start(): no server has a socket
InitLife ==
    /\ Constructed
    /\ host = "new"
    /\ running = [p \in Ports |-> FALSE]
    /\ listener = [p \in Ports |-> "none"]
    /\ accepting = [p \in Ports |-> Acceptor("none")]

\* a handler may meet a failing disk while the fault budget lasts
DiskFor(d) == d = "ok" \/ faults < MaxFaults
Charge(d) == faults' = IF d = "ok" THEN faults ELSE faults + 1

\* ------------------------------------------------- sessions (both specs)
\* _accept_connections: accept, register the client, start its thread
Accept(c) ==
    /\ running[PortOf(c)]
    /\ listener[PortOf(c)] = "listening"
    /\ accepting[PortOf(c)].at = "accept"
    /\ sess[c] = "closed"
    /\ sess' = [sess EXCEPT ![c] = "open"]
    /\ clients' = Stored(c)
    /\ UNCHANGED <<storeVars, resp, faults, concVars, frameVars, serverVars>>

\* _handle_client: recv returns no data; the finally block closes the socket
\* and deletes the client
Disconnect(c) ==
    /\ sess[c] = "open"
    /\ c \in clients[PortOf(c)]
    /\ pc[c] = "recv"
    /\ sess' = [sess EXCEPT ![c] = "closed"]
    /\ clients' = Dropped({c})
    /\ UNCHANGED <<storeVars, resp, faults, concVars, frameVars, serverVars>>

\* the process ends and is started again: both stores are loaded from
\* their files, no connection survives
Restart ==
    /\ \A c \in Conns : pc[c] = "recv"
    /\ contacts' = Load(contactsFile)
    /\ messages' = Load(messagesFile)
    /\ sess' = [c \in Conns |-> "closed"]
    /\ clients' = [p \in Ports |-> {}]
    /\ resp' = NoMessage
    /\ UNCHANGED <<contactsFile, messagesFile, faults, concVars, frameVars,
                   serverVars>>

\* ------------------------------------------- device port, whole handlers
\* a device request that empties the contact store while it answers
BTSimpleForgetting(c, type) ==
    /\ sess[c] = "open"
    /\ resp' = BTResponse([type |-> type], contacts)
    /\ contacts' = EmptyMap
    /\ UNCHANGED <<messages, contactsFile, messagesFile, sess, faults,
                   threadVars>>

BTSimple(c, type) ==
    /\ sess[c] = "open"
    /\ resp' = BTResponse([type |-> type], contacts)
    /\ UNCHANGED <<storeVars, sess, faults, threadVars>>

BTIdentify(c) == BTSimple(c, "identify")
BTPing(c) == BTSimple(c, "ping")
BTGetContacts(c) == BTSimple(c, "get_contacts")
BTUnknown(c, type) == type \in BTUnknownTypes /\ BTSimple(c, type)

\* sync_contacts whose loop gets through the whole list
BTSyncContacts(c, L, disk) ==
    LET m == [type |-> "sync_contacts", contacts |-> L] IN
    /\ sess[c] = "open"
    /\ ~SyncRaises(L)
    /\ DiskFor(disk) /\ Charge(disk)
    /\ contacts' = SyncPrefix(contacts, L, Len(L))
    /\ contactsFile' = SyncFile(contactsFile, contacts, L, Len(L), disk)
    /\ resp' = BTResponse(m, contacts')
    /\ UNCHANGED <<messages, messagesFile, sess, threadVars>>

\* sync_contacts with an entry that raises: the entries before it are
\* applied, _handle_client logs the exception and closes the connection
\* without a response
BTSyncContactsRaise(c, L, disk) ==
    LET m == [type |-> "sync_contacts", contacts |-> L]
        k == Reached(L, Len(L)) IN
    /\ sess[c] = "open"
    /\ SyncRaises(L)
    /\ DiskFor(disk) /\ Charge(disk)
    /\ contacts' = SyncPrefix(contacts, L, k)
    /\ contactsFile' = SyncFile(contactsFile, contacts, L, k, disk)
    /\ resp' = NoMessage
    /\ sess' = [sess EXCEPT ![c] = "closed"]
    /\ clients' = Dropped({c})
    /\ UNCHANGED <<messages, messagesFile, concVars, frameVars, serverVars>>

\* the process is killed inside sync_from_device after k of the entries,
\* then started again
BTSyncContactsCrash(c, L, k) ==
    /\ sess[c] = "open"
    /\ faults < MaxFaults
    /\ k \in 1..(Len(L) - 1)
    /\ k <= Reached(L, Len(L))
    /\ faults' = faults + 1
    /\ contactsFile' = SyncFile(contactsFile, contacts, L, k, "ok")
    /\ contacts' = Load(contactsFile')
    /\ messages' = Load(messagesFile)
    /\ sess' = [x \in Conns |-> "closed"]
    /\ clients' = [p \in Ports |-> {}]
    /\ resp' = NoMessage
    /\ UNCHANGED <<messagesFile, concVars, frameVars, serverVars>>

\* a send_message whose failed write ends the session without an ack
BTSendMessageUnabsorbed(c, id, to, text, disk) ==
    LET m == [type |-> "send_message", id |-> id, to |-> to, text |-> text] IN
    /\ sess[c] = "open"
    /\ DiskFor(disk) /\ Charge(disk)
    /\ messages' = AddMessage(messages, id, to, text, c)
    /\ messagesFile' = Save(messagesFile, messages', disk)
    /\ resp' = IF disk = "ok" THEN BTResponse(m, contacts) ELSE NoMessage
    /\ sess' = IF disk = "ok" THEN sess ELSE [sess EXCEPT ![c] = "closed"]
    /\ clients' = IF disk = "ok" THEN clients ELSE Dropped({c})
    /\ UNCHANGED <<contacts, contactsFile, concVars, frameVars, serverVars>>

BTSendMessage(c, id, to, text, disk) ==
    LET m == [type |-> "send_message", id |-> id, to |-> to, text |-> text] IN
    /\ sess[c] = "open"
    /\ DiskFor(disk) /\ Charge(disk)
    /\ messages' = AddMessage(messages, id, to, text, c)
    /\ messagesFile' = Save(messagesFile, messages', disk)
    /\ resp' = BTResponse(m, contacts)
    /\ UNCHANGED <<contacts, contactsFile, sess, threadVars>>

BTSmsStatus(c, id, status, disk) ==
    LET m == [type |-> "sms_status", id |-> id, status |-> status] IN
    /\ sess[c] = "open"
    /\ DiskFor(disk) /\ Charge(disk)
    /\ messages' = UpdateStatus(messages, id, status)
    /\ messagesFile' = IF id \in DOMAIN messages
                         THEN Save(messagesFile, messages', disk)
                         ELSE messagesFile
    /\ resp' = BTResponse(m, contacts)
    /\ UNCHANGED <<contacts, contactsFile, sess, threadVars>>

\* ------------------------------------------ console port, whole handlers
\* a console request that empties the message store while it answers
TCPSimpleClearing(c, type) ==
    /\ sess[c] = "open"
    /\ resp' = TCPResponse([type |-> type], contacts, messages)
    /\ messages' = EmptyMap
    /\ UNCHANGED <<contacts, contactsFile, messagesFile, sess, faults,
                   threadVars>>

TCPSimple(c, type) ==
    /\ sess[c] = "open"
    /\ resp' = TCPResponse([type |-> type], contacts, messages)
    /\ UNCHANGED <<storeVars, sess, faults, threadVars>>

TCPGetStatus(c) == TCPSimple(c, "get_status")
TCPGetContacts(c) == TCPSimple(c, "get_contacts")
TCPGetMessages(c) == TCPSimple(c, "get_messages")
TCPUnknown(c, type) == type \in TCPUnknownTypes /\ TCPSimple(c, type)

\* ------------------------------------------------------- specifications
\* the steps of the handlers, for writes that meet the outcomes `disks`,
\* send_message requests that carry the ids `ids` and the texts `texts`, and
\* sync_contacts requests that carry the lists `lists`
Requests(disks, ids, texts, lists) ==
    \/ \E c \in SeqBT \cup SeqTCP : Accept(c)
    \/ \E c \in SeqBT \cup SeqTCP : Disconnect(c)
    \/ Restart
    \/ \E c \in SeqBT : BTIdentify(c)
    \/ \E c \in SeqBT : BTPing(c)
    \/ \E c \in SeqBT : BTGetContacts(c)
    \/ \E c \in SeqBT, t \in BTUnknownTypes : BTUnknown(c, t)
    \/ \E c \in SeqBT, L \in lists, d \in disks :
            BTSyncContacts(c, L, d)
    \/ \E c \in SeqBT, L \in lists, d \in disks :
            BTSyncContactsRaise(c, L, d)
    \/ \E c \in SeqBT, i \in ids, n \in Numbers, t \in texts, d \in disks :
            BTSendMessage(c, i, n, t, d)
    \/ \E c \in SeqBT, i \in MsgIds, s \in Statuses, d \in disks :
            BTSmsStatus(c, i, s, d)
    \/ \E c \in SeqTCP : TCPGetStatus(c)
    \/ \E c \in SeqTCP : TCPGetContacts(c)
    \/ \E c \in SeqTCP : TCPGetMessages(c)
    \/ \E c \in SeqTCP, t \in TCPUnknownTypes : TCPUnknown(c, t)

Next == Requests({"ok"}, MsgIds, Texts, ContactLists)

Spec == Init /\ [][Next]_vars

\* SpecBook: every list of contacts, one message id and one text
NextBook == Requests({"ok"}, {"m1"}, {"hi"}, ContactLists)

SpecBook == Init /\ [][NextBook]_vars

\* the sync_contacts requests of SpecMsg: at most one entry
ShortLists == {L \in ContactLists : Len(L) <= 1}

NextMsg == Requests({"ok"}, MsgIds, Texts, ShortLists)

SpecMsg == Init /\ [][NextMsg]_vars

NextFault ==
    \/ Requests(DiskOutcomes, FaultIds, FaultTexts, FaultLists)
    \/ \E c \in SeqBT, L \in FaultLists, k \in 1..MaxContacts :
            BTSyncContactsCrash(c, L, k)

SpecFault == Init /\ [][NextFault]_vars

\* the sync_contacts requests of SpecSave: one entry at most
SaveLists == FaultLists \cap ShortLists

NextSave == Requests(DiskOutcomes, FaultIds, FaultTexts, SaveLists)

SpecSave == Init /\ [][NextSave]_vars

\* ------------------------------------------------ session threads, by step
\* Each session thread runs _handle_client. A step of a thread is one access
\* to the shared stores or files; what a thread does on its own (recv,
\* json.loads, building the response) goes with its next access.
Idle(c) == sess[c] = "open" /\ pc[c] = "recv"

\* send_message up to the dictionary assignment of add_message
CSendMessage(c, to, text) ==
    LET id == IdPool[c][sent[c] + 1]
        m == [type |-> "send_message", id |-> id, to |-> to, text |-> text] IN
    /\ Idle(c)
    /\ sent[c] < SendsPerConn
    /\ messages' = AddMessage(messages, id, to, text, c)
    /\ sent' = [sent EXCEPT ![c] = @ + 1]
    /\ cur' = [cur EXCEPT ![c] = m]
    /\ pc' = [pc EXCEPT ![c] = "save"]
    /\ UNCHANGED <<contacts, contactsFile, messagesFile, sess, resp, faults,
                   iter, idx, frameVars, lifeVars>>

\* sms_status up to the dictionary assignment of update_status
CSmsStatus(c, id, status) ==
    LET m == [type |-> "sms_status", id |-> id, status |-> status] IN
    /\ Idle(c)
    /\ messages' = UpdateStatus(messages, id, status)
    /\ cur' = [cur EXCEPT ![c] = m]
    /\ pc' = [pc EXCEPT ![c] = IF id \in DOMAIN messages THEN "save"
                                                          ELSE "respond"]
    /\ UNCHANGED <<contacts, contactsFile, messagesFile, sess, resp, faults,
                   iter, sent, idx, frameVars, lifeVars>>

\* MessageQueue._save: open(log_path, 'w') truncates messages.json, and
\* json.dump starts to iterate the dictionary
CSaveOpen(c) ==
    /\ pc[c] = "save"
    /\ messagesFile' = CorruptFile
    /\ iter' = [iter EXCEPT ![c] = DOMAIN messages]
    /\ pc' = [pc EXCEPT ![c] = "dump"]
    /\ UNCHANGED <<contacts, messages, contactsFile, sess, resp, faults, cur,
                   sent, idx, frameVars, lifeVars>>

\* what messages.json may hold when a json.dump ends: the dump raises when
\* the dictionary changed size under it (clean = FALSE), and it shares the
\* file when another thread wrote or still writes it (contested)
DumpResults(file, store, clean, contested) ==
    IF clean /\ ~contested THEN {[state |-> "ok", data |-> Dump(store)]}
    ELSE IF clean THEN {[state |-> "ok", data |-> Dump(store)], CorruptFile}
    ELSE {file, CorruptFile}

\* MessageQueue._save: json.dump ends and the file is closed
CSaveDump(c, f) ==
    /\ pc[c] = "dump"
    /\ f \in DumpResults(messagesFile, messages, DOMAIN messages = iter[c],
                         \/ messagesFile.state = "ok"
                         \/ \E o \in Conns \ {c} : pc[o] = "dump")
    /\ messagesFile' = f
    /\ iter' = [iter EXCEPT ![c] = {}]
    /\ pc' = [pc EXCEPT ![c] = "respond"]
    /\ UNCHANGED <<contacts, messages, contactsFile, sess, resp, faults, cur,
                   sent, idx, frameVars, lifeVars>>

\* the console requests: get_status counts both stores in _process_message,
\* get_messages hands out the dictionary itself
CConsole(c, type) ==
    /\ Idle(c)
    /\ cur' = [cur EXCEPT ![c] =
                 IF type = "get_status"
                 THEN TCPResponse([type |-> type], contacts, messages)
                 ELSE [type |-> type]]
    /\ pc' = [pc EXCEPT ![c] = "respond"]
    /\ UNCHANGED <<storeVars, sess, resp, faults, iter, sent, idx, frameVars,
                   lifeVars>>

\* client_sock.send(json.dumps(response)): a dictionary in the response is
\* serialised as it stands now
CRespond(c) ==
    /\ pc[c] = "respond"
    /\ resp' = IF c \in BTConns THEN BTResponse(cur[c], contacts)
               ELSE IF cur[c].type = "status" THEN cur[c]
               ELSE TCPResponse(cur[c], contacts, messages)
    /\ cur' = [cur EXCEPT ![c] = NoMessage]
    /\ pc' = [pc EXCEPT ![c] = "recv"]
    /\ UNCHANGED <<storeVars, sess, faults, iter, sent, idx, frameVars,
                   lifeVars>>

NextConc ==
    \/ \E c \in Conns : Accept(c)
    \/ \E c \in BTConns, n \in Numbers, t \in FaultTexts : CSendMessage(c, n, t)
    \/ \E c \in BTConns, i \in DOMAIN messages \cap ConcReported,
          s \in ConcStatuses :
            CSmsStatus(c, i, s)
    \/ \E c \in BTConns : CSaveOpen(c)
    \/ \E c \in BTConns, f \in {messagesFile, CorruptFile,
                                [state |-> "ok", data |-> Dump(messages)]} :
            CSaveDump(c, f)
    \/ \E c \in TCPConns, t \in {"get_status", "get_messages"} : CConsole(c, t)
    \/ \E c \in Conns : CRespond(c)

SpecConc == Init /\ [][NextConc]_vars

\* --------------------------------------- sync_from_device, entry by entry
\* the store a sync_contacts request met when it was taken up is kept with
\* the request (no code reads it)
SyncRequest(L, cs) == [type |-> "sync_contacts", contacts |-> L, before |-> cs]

\* sync_contacts up to the loop of sync_from_device
CSyncContacts(c, L) ==
    /\ Idle(c)
    /\ cur' = [cur EXCEPT ![c] = SyncRequest(L, contacts)]
    /\ idx' = [idx EXCEPT ![c] = 0]
    /\ pc' = [pc EXCEPT ![c] = IF Len(L) = 0 THEN "respond" ELSE "sync"]
    /\ UNCHANGED <<storeVars, sess, resp, faults, iter, sent, frameVars,
                   lifeVars>>

\* one iteration of the loop of sync_from_device: add_contact and its _save
CSyncEntry(c) ==
    LET L == cur[c].contacts
        e == L[idx[c] + 1] IN
    /\ pc[c] = "sync"
    /\ ~Raises(e)
    /\ contacts' = ApplyEntry(contacts, e)
    /\ contactsFile' = IF e.phone # None
                         THEN Save(contactsFile, contacts', "ok")
                         ELSE contactsFile
    /\ idx' = [idx EXCEPT ![c] = IF @ + 1 = Len(L) THEN 0 ELSE @ + 1]
    /\ pc' = [pc EXCEPT ![c] = IF idx[c] + 1 = Len(L) THEN "respond"
                                                       ELSE "sync"]
    /\ UNCHANGED <<messages, messagesFile, sess, resp, faults, cur, iter, sent,
                   frameVars, lifeVars>>

\* an iteration on an entry that raises: _handle_client logs the exception
\* and closes the connection without a response
CSyncEntryRaise(c) ==
    /\ pc[c] = "sync"
    /\ Raises(cur[c].contacts[idx[c] + 1])
    /\ sess' = [sess EXCEPT ![c] = "closed"]
    /\ cur' = [cur EXCEPT ![c] = NoMessage]
    /\ idx' = [idx EXCEPT ![c] = 0]
    /\ pc' = [pc EXCEPT ![c] = "recv"]
    /\ clients' = Dropped({c})
    /\ UNCHANGED <<storeVars, resp, faults, iter, sent, frameVars, serverVars>>

\* get_contacts on the device port: the response holds the dictionary itself
CGetContacts(c) ==
    /\ Idle(c)
    /\ cur' = [cur EXCEPT ![c] = [type |-> "get_contacts"]]
    /\ pc' = [pc EXCEPT ![c] = "respond"]
    /\ UNCHANGED <<storeVars, sess, resp, faults, iter, sent, idx, frameVars,
                   lifeVars>>

\* the connection that syncs and the connections that read in SpecSync
Syncers == {"bt1"}
Readers == {"bt2", "cc1"}

NextSync ==
    \/ \E c \in Conns : Accept(c)
    \/ \E c \in Syncers, L \in FaultLists : CSyncContacts(c, L)
    \/ \E c \in Syncers : CSyncEntry(c)
    \/ \E c \in Syncers : CSyncEntryRaise(c)
    \/ \E c \in Readers \cap BTConns : CGetContacts(c)
    \/ \E c \in Readers \cap TCPConns : CConsole(c, "get_contacts")
    \/ \E c \in Conns : CRespond(c)

SpecSync == Init /\ [][NextSync]_vars

\* ------------------------------------------- requests that lack a field
\* message.get('id'), .get('to'), .get('text'), .get('status'): the value
\* of the field, or None when the request has no such field
FieldIds == {"m1", None}
FieldNumbers == {"+46700000000", None}
FieldTexts == {"hi", None}
FieldStatuses == {"sent", None}

NextField ==
    \/ \E c \in SeqBT \cup SeqTCP : Accept(c)
    \/ \E c \in SeqBT \cup SeqTCP : Disconnect(c)
    \/ \E c \in SeqBT, i \in FieldIds, n \in FieldNumbers, t \in FieldTexts :
            BTSendMessage(c, i, n, t, "ok")
    \/ \E c \in SeqBT, i \in FieldIds, s \in FieldStatuses :
            BTSmsStatus(c, i, s, "ok")
    \/ \E c \in SeqTCP : TCPGetMessages(c)

SpecField == Init /\ [][NextField]_vars

\* ------------------------------------------ the receive loop, read by read
\* The byte stream of a connection is a sequence of slices: "{" and "}" open
\* and close a JSON object, the slice after "{" holds its type, "pad" is a
\* further stretch of its body, "x" is bytes that belong to no JSON text.

\* recv(1024): the most slices one read returns
BufSize == 4

\* json.dumps(msg) on the client: the text of a request of the given type
\* with `pad` further slices of body
Json(type, pad) == <<"{", type>> \o [j \in 1..pad |-> "pad"] \o <<"}">>
Garbage == <<"x">>

\* the requests the clients of SpecFrame send; the identify carries a body
\* that is longer than one read
BTFrameRequests ==
    {[type |-> "ping", pad |-> 0], [type |-> "identify", pad |-> 2],
     [type |-> "frobnicate", pad |-> 0]}
TCPFrameRequests ==
    {[type |-> "get_status", pad |-> 0], [type |-> "frobnicate", pad |-> 0]}
FrameRequests(c) ==
    IF c \in BTConns THEN BTFrameRequests ELSE TCPFrameRequests

\* json.loads(data) returns for exactly one complete JSON text, and raises
\* JSONDecodeError for anything else
Parses(data) ==
    /\ Len(data) >= 3
    /\ data[1] = "{"
    /\ data[Len(data)] = "}"
    /\ \A j \in 2..(Len(data) - 1) : data[j] \notin {"{", "}", "x"}
Loads(data) == [type |-> data[2]]

\* a turn of the loop that treats a request of unknown type as unparsable
OutcomeUnknownInvalid(data) ==
    IF Parses(data) /\ data[2] # "frobnicate" THEN "message" ELSE "invalid"

\* a turn of the loop of _handle_client on the bytes of one read
Outcome(data) == IF Parses(data) THEN "message" ELSE "invalid"

\* a loop that skips bytes it cannot parse
LoopAfterSkipsInvalid(outcome) ==
    IF outcome \in {"message", "timeout", "invalid"} THEN "open" ELSE "closed"

\* a loop that gives up on a read timeout
LoopAfterTimeoutBreaks(outcome) ==
    IF outcome = "message" THEN "open" ELSE "closed"

\* the loop goes on after a message and after socket.timeout; it breaks on
\* JSONDecodeError and on end of stream, and the finally block closes
LoopAfter(outcome) ==
    IF outcome \in {"message", "timeout"} THEN "open" ELSE "closed"

Event(outcome, type) == [event |-> outcome, type |-> type]

\* _process_message of the port the connection belongs to
FResponse(c, m) ==
    IF c \in BTConns THEN BTResponse(m, contacts)
    ELSE TCPResponse(m, contacts, messages)

\* SpecFrame serves one connection at a time and keeps its trace only
FAccept(c) ==
    /\ \A o \in Conns : sess[o] = "closed"
    /\ sess' = [sess EXCEPT ![c] = "open"]
    /\ wire' = [o \in Conns |-> <<>>]
    /\ trace' = [o \in Conns |-> <<>>]
    /\ clients' = Stored(c)
    /\ UNCHANGED <<storeVars, resp, faults, concVars, serverVars>>

\* the client's sendall: the text of a request reaches the host socket
ClientSend(c, r) ==
    /\ sess[c] = "open"
    /\ Len(wire[c]) + Len(Json(r.type, r.pad)) <= MaxWire
    /\ wire' = [wire EXCEPT ![c] = @ \o Json(r.type, r.pad)]
    /\ UNCHANGED <<storeVars, sess, resp, faults, concVars, trace, lifeVars>>

\* a client that writes something else than JSON
ClientSendGarbage(c) ==
    /\ sess[c] = "open"
    /\ Len(wire[c]) + Len(Garbage) <= MaxWire
    /\ wire' = [wire EXCEPT ![c] = @ \o Garbage]
    /\ UNCHANGED <<storeVars, sess, resp, faults, concVars, trace, lifeVars>>

\* one turn of the loop in which recv returns the first n slices: they are
\* parsed on their own, and a message is dispatched and answered. The
\* requests of SpecFrame touch no store.
FRead(c, n) ==
    LET data == SubSeq(wire[c], 1, n)
        o == Outcome(data) IN
    /\ sess[c] = "open"
    /\ n <= Len(wire[c])
    /\ Len(trace[c]) < MaxReads
    /\ trace' = [trace EXCEPT ![c] =
                   Append(@, Event(o, IF o = "message" THEN Loads(data).type
                                                        ELSE None))]
    /\ resp' = IF o = "message" THEN FResponse(c, Loads(data)) ELSE resp
    /\ sess' = [sess EXCEPT ![c] = LoopAfter(o)]
    /\ wire' = [wire EXCEPT ![c] = IF LoopAfter(o) = "open"
                                     THEN SubSeq(@, n + 1, Len(@)) ELSE <<>>]
    /\ clients' = IF LoopAfter(o) = "open" THEN clients ELSE Dropped({c})
    /\ UNCHANGED <<storeVars, faults, concVars, serverVars>>

\* one turn in which recv raises socket.timeout
FTimeout(c) ==
    /\ sess[c] = "open"
    /\ wire[c] = <<>>
    /\ Len(trace[c]) < MaxReads
    /\ trace' = [trace EXCEPT ![c] = Append(@, Event("timeout", None))]
    /\ sess' = [sess EXCEPT ![c] = LoopAfter("timeout")]
    /\ clients' = IF LoopAfter("timeout") = "open" THEN clients
                                                    ELSE Dropped({c})
    /\ UNCHANGED <<storeVars, resp, faults, concVars, wire, serverVars>>

\* one turn in which recv returns no data: the client has closed
FEof(c) ==
    /\ sess[c] = "open"
    /\ wire[c] = <<>>
    /\ Len(trace[c]) < MaxReads
    /\ trace' = [trace EXCEPT ![c] = Append(@, Event("eof", None))]
    /\ sess' = [sess EXCEPT ![c] = LoopAfter("eof")]
    /\ clients' = IF LoopAfter("eof") = "open" THEN clients ELSE Dropped({c})
    /\ UNCHANGED <<storeVars, resp, faults, concVars, wire, serverVars>>

NextFrame ==
    \/ \E c \in SeqBT \cup SeqTCP : FAccept(c)
    \/ \E c \in SeqBT \cup SeqTCP : \E r \in FrameRequests(c) : ClientSend(c, r)
    \/ \E c \in SeqBT \cup SeqTCP : ClientSendGarbage(c)
    \/ \E c \in SeqBT \cup SeqTCP, n \in 1..BufSize : FRead(c, n)
    \/ \E c \in SeqBT \cup SeqTCP : FTimeout(c)
    \/ \E c \in SeqBT \cup SeqTCP : FEof(c)

SpecFrame == Init /\ [][NextFrame]_vars

\* ------------------------------------------------ identified connections
\* message.get('device') of an identify request
Devices == {"Z Fold 6"}

\* _accept_connections for a connection whose trace is kept
IAccept(c) ==
    /\ sess[c] = "closed"
    /\ sess' = [sess EXCEPT ![c] = "open"]
    /\ trace' = [trace EXCEPT ![c] = <<>>]
    /\ clients' = Stored(c)
    /\ UNCHANGED <<storeVars, resp, faults, concVars, wire, serverVars>>

\* identify: the device name goes to the log and nowhere else
BTIdentifyAs(c, device) ==
    /\ sess[c] = "open"
    /\ Len(trace[c]) < MaxReads
    /\ trace' = [trace EXCEPT ![c] = Append(@, Event("identified", device))]
    /\ resp' = BTResponse([type |-> "identify", device |-> device], contacts)
    /\ UNCHANGED <<storeVars, sess, faults, concVars, wire, lifeVars>>

NextIdent ==
    \/ \E c \in Conns : IAccept(c)
    \/ \E c \in Conns : Disconnect(c)
    \/ \E c \in BTConns, d \in Devices : BTIdentifyAs(c, d)
    \/ \E c \in BTConns, i \in FaultIds, n \in Numbers, t \in FaultTexts :
            BTSendMessage(c, i, n, t, "ok")
    \/ \E c \in TCPConns : TCPGetStatus(c)
    \/ \E c \in TCPConns : TCPGetMessages(c)

SpecIdent == Init /\ [][NextIdent]_vars

\* ------------------------------------------------------ start and stop
\* what bind() of a server does
BindOutcomes == {"bound", "failed"}

\* start() of one server: a bound socket listens and the accept loop runs;
\* a failed bind is logged, the socket object stays, the thread returns
RunningAfterStart(b) == b = "bound"
ListenerAfterStart(b) == IF b = "bound" THEN "listening" ELSE "unbound"
AcceptorAfterStart(b) == IF b = "bound" THEN Acceptor("accept")
                                        ELSE Acceptor("exit")

\* SBMSHost.start: both server threads are started, whatever their binds
\* do, and the host reports that all services are started
HostStart(bt, tcp) ==
    LET b == [p \in Ports |-> IF p = "bt" THEN bt ELSE tcp] IN
    /\ host = "new"
    /\ host' = "started"
    /\ running' = [p \in Ports |-> RunningAfterStart(b[p])]
    /\ listener' = [p \in Ports |-> ListenerAfterStart(b[p])]
    /\ accepting' = [p \in Ports |-> AcceptorAfterStart(b[p])]
    /\ UNCHANGED <<storeVars, sess, resp, faults, concVars, frameVars,
                   clients, stops, stopping>>

\* server_socket after stop(): a second close changes nothing
ListenerAfterStopReopens(l) ==
    IF l = "none" THEN "none" ELSE IF l = "closed" THEN "listening"
                                                   ELSE "closed"

\* server_socket after stop(): closed, if there is one
ListenerAfterStop(l) == IF l = "none" THEN "none" ELSE "closed"

\* stop() of the servers ps, as one step
Stop(ps) ==
    /\ \A p \in ps : stops[p] < MaxStops /\ stopping[p] = "idle"
    /\ running' = [p \in Ports |-> IF p \in ps THEN FALSE ELSE running[p]]
    /\ sess' = [c \in Conns |->
                 IF PortOf(c) \in ps /\ c \in clients[PortOf(c)]
                 THEN "closed" ELSE sess[c]]
    /\ clients' = [p \in Ports |-> IF p \in ps THEN {} ELSE clients[p]]
    /\ listener' = [p \in Ports |-> IF p \in ps
                                      THEN ListenerAfterStop(listener[p])
                                      ELSE listener[p]]
    /\ stops' = [p \in Ports |-> IF p \in ps THEN stops[p] + 1
                                               ELSE stops[p]]
    /\ UNCHANGED <<storeVars, resp, faults, concVars, frameVars, accepting,
                   stopping>>

\* BluetoothServer.stop, TCPServer.stop
ServerStop(p) == Stop({p}) /\ host' = host

\* SBMSHost.stop: both servers are stopped
HostStop == Stop(Ports) /\ host' = "stopped"

\* accept() raises: socket.timeout, or an error on a closed socket
SAcceptFail(p) ==
    /\ accepting[p].at = "accept"
    /\ accepting' = [accepting EXCEPT ![p] = Acceptor("check")]
    /\ UNCHANGED <<storeVars, sess, resp, faults, concVars, frameVars, host,
                   running, listener, clients, stops, stopping>>

\* while self.running
SAcceptLoop(p) ==
    /\ accepting[p].at = "check"
    /\ accepting' = [accepting EXCEPT ![p] =
                       Acceptor(IF running[p] THEN "accept" ELSE "exit")]
    /\ UNCHANGED <<storeVars, sess, resp, faults, concVars, frameVars, host,
                   running, listener, clients, stops, stopping>>

NextLife ==
    \/ \E bt \in BindOutcomes, tcp \in BindOutcomes : HostStart(bt, tcp)
    \/ \E c \in Conns : Accept(c)
    \/ \E c \in Conns : Disconnect(c)
    \/ \E c \in BTConns : BTPing(c)
    \/ \E c \in TCPConns : TCPGetStatus(c)
    \/ \E p \in Ports : SAcceptFail(p)
    \/ \E p \in Ports : SAcceptLoop(p)
    \/ \E p \in Ports : ServerStop(p)
    \/ HostStop

SpecLife == InitLife /\ [][NextLife]_vars

\* -------------------------------------- stop() next to the accept loop
\* accept() returns the connection c
SAcceptTake(p, c) ==
    /\ accepting[p].at = "accept"
    /\ listener[p] = "listening"
    /\ PortOf(c) = p
    /\ sess[c] = "closed"
    /\ sess' = [sess EXCEPT ![c] = "open"]
    /\ accepting' = [accepting EXCEPT ![p] = [at |-> "store", conn |-> c]]
    /\ UNCHANGED <<storeVars, resp, faults, concVars, frameVars, host,
                   running, listener, clients, stops, stopping>>

\* the connection is stored under the lock and its handler thread started
SAcceptStore(p) ==
    /\ accepting[p].at = "store"
    /\ clients' = Stored(accepting[p].conn)
    /\ accepting' = [accepting EXCEPT ![p] = Acceptor("check")]
    /\ UNCHANGED <<storeVars, sess, resp, faults, concVars, frameVars, host,
                   running, listener, stops, stopping>>

\* stop(): self.running = False
SStopFlag(p) ==
    /\ stopping[p] = "idle"
    /\ stops[p] < MaxStops
    /\ running' = [running EXCEPT ![p] = FALSE]
    /\ stopping' = [stopping EXCEPT ![p] = "clients"]
    /\ UNCHANGED <<storeVars, sess, resp, faults, concVars, frameVars, host,
                   listener, clients, stops, accepting>>

\* stop(): under the lock, every stored client is closed and the map cleared
SStopClients(p) ==
    /\ stopping[p] = "clients"
    /\ sess' = [c \in Conns |-> IF c \in clients[p] THEN "closed"
                                                     ELSE sess[c]]
    /\ clients' = [clients EXCEPT ![p] = {}]
    /\ stopping' = [stopping EXCEPT ![p] = "socket"]
    /\ UNCHANGED <<storeVars, resp, faults, concVars, frameVars, host,
                   running, listener, stops, accepting>>

\* stop(): the server socket is closed, stop() returns
SStopSocket(p) ==
    /\ stopping[p] = "socket"
    /\ listener' = [listener EXCEPT ![p] = ListenerAfterStop(@)]
    /\ stops' = [stops EXCEPT ![p] = @ + 1]
    /\ stopping' = [stopping EXCEPT ![p] = "idle"]
    /\ UNCHANGED <<storeVars, sess, resp, faults, concVars, frameVars, host,
                   running, clients, accepting>>

\* a request on a connection whose handler thread runs
SServe(c) ==
    /\ c \in clients[PortOf(c)]
    /\ IF c \in BTConns THEN BTPing(c) ELSE TCPGetStatus(c)

NextStop ==
    \/ \E p \in Ports : \E c \in Conns : SAcceptTake(p, c)
    \/ \E p \in Ports : SAcceptFail(p)
    \/ \E p \in Ports : SAcceptStore(p)
    \/ \E p \in Ports : SAcceptLoop(p)
    \/ \E p \in Ports : SStopFlag(p)
    \/ \E p \in Ports : SStopClients(p)
    \/ \E p \in Ports : SStopSocket(p)
    \/ \E c \in Conns : Disconnect(c)
    \/ \E c \in Conns : SServe(c)

SpecStop == Init /\ [][NextStop]_vars

\* ------------------------------------------- stop() next to start()
\* SBMSHost.start: the two server threads are started; neither has run a
\* line of start() yet
SHostThreads ==
    /\ host = "new"
    /\ host' = "started"
    /\ accepting' = [p \in Ports |-> Acceptor("start")]
    /\ UNCHANGED <<storeVars, sess, resp, faults, concVars, frameVars,
                   running, listener, clients, stops, stopping>>

\* start(): self.server_socket = socket.socket(...)
SStartSocket(p) ==
    /\ accepting[p].at = "start"
    /\ listener' = [listener EXCEPT ![p] = "unbound"]
    /\ accepting' = [accepting EXCEPT ![p] = Acceptor("bind")]
    /\ UNCHANGED <<storeVars, sess, resp, faults, concVars, frameVars, host,
                   running, clients, stops, stopping>>

\* start(): bind, listen, settimeout.  On a socket that stop() has closed,
\* or when the bind fails, the call raises, start() logs and returns.
SStartBind(p, b) ==
    /\ accepting[p].at = "bind"
    /\ IF listener[p] = "unbound" /\ b = "bound"
       THEN /\ listener' = [listener EXCEPT ![p] = "listening"]
            /\ accepting' = [accepting EXCEPT ![p] = Acceptor("flag")]
       ELSE /\ listener' = listener
            /\ accepting' = [accepting EXCEPT ![p] = Acceptor("exit")]
    /\ UNCHANGED <<storeVars, sess, resp, faults, concVars, frameVars, host,
                   running, clients, stops, stopping>>

\* start(): self.running = True, then the accept loop
SStartFlag(p) ==
    /\ accepting[p].at = "flag"
    /\ running' = [running EXCEPT ![p] = TRUE]
    /\ accepting' = [accepting EXCEPT ![p] = Acceptor("check")]
    /\ UNCHANGED <<storeVars, sess, resp, faults, concVars, frameVars, host,
                   listener, clients, stops, stopping>>

\* where start() is between its first line and the accept loop
Binding == {"bind", "flag"}

\* stop() is called on another thread while start() is binding
SStopDuringStart(p) ==
    /\ accepting[p].at \in Binding
    /\ SStopFlag(p)

NextRace ==
    \/ SHostThreads
    \/ \E p \in Ports : SStartSocket(p)
    \/ \E p \in Ports, b \in BindOutcomes : SStartBind(p, b)
    \/ \E p \in Ports : SStartFlag(p)
    \/ \E p \in Ports : SStopDuringStart(p)
    \/ \E p \in Ports : SStopClients(p)
    \/ \E p \in Ports : SStopSocket(p)
    \/ \E p \in Ports : \E c \in Conns : SAcceptTake(p, c)
    \/ \E p \in Ports : SAcceptFail(p)
    \/ \E p \in Ports : SAcceptStore(p)
    \/ \E p \in Ports : SAcceptLoop(p)

SpecRace == InitLife /\ [][NextRace]_vars

\* --------------------------------------- two sync_contacts side by side
\* the lists of SpecSyncs: two JSON objects with a phone each
FullLists ==
    {L \in ContactLists :
        Len(L) = 2 /\ \A j \in 1..2 : L[j].dict /\ L[j].phone # None}

\* the sync_contacts request a connection has issued, as its trace keeps it
Synced(L) == [event |-> "sync", contacts |-> L]

\* the one sync_contacts request of a connection, up to the loop of
\* sync_from_device
DSyncContacts(c, L) ==
    /\ Idle(c)
    /\ trace[c] = <<>>
    /\ trace' = [trace EXCEPT ![c] = <<Synced(L)>>]
    /\ cur' = [cur EXCEPT ![c] = SyncRequest(L, contacts)]
    /\ idx' = [idx EXCEPT ![c] = 0]
    /\ pc' = [pc EXCEPT ![c] = "sync"]
    /\ UNCHANGED <<storeVars, sess, resp, faults, iter, sent, wire, lifeVars>>

NextSyncs ==
    \/ \E c \in BTConns : Accept(c)
    \/ \E c \in BTConns, L \in FullLists : DSyncContacts(c, L)
    \/ \E c \in BTConns : CSyncEntry(c)
    \/ \E c \in BTConns : CRespond(c)

SpecSyncs == Init /\ [][NextSyncs]_vars

\* ------------------------------------------------ sessions side by side
\* a contacts list whose only element is no JSON object
BadList == <<[dict |-> FALSE, phone |-> None, name |-> None]>>

\* the requests the clients of SpecServe send: none of them changes a store
ServeRequests(c) ==
    IF c \in BTConns
    THEN {[type |-> "ping"], [type |-> "sync_contacts", contacts |-> BadList]}
    ELSE {[type |-> "get_status"]}

\* _process_message raises on this request (contact.get on a non-dict)
ProcessRaises(m) == m.type = "sync_contacts" /\ SyncRaises(m.contacts)

\* what recv does when it returns no message and the loop ends
ReadFailures == {"invalid", "eof", "error"}

\* client_sock.send(...) as the session handler's trace keeps it
Sent(r) == [event |-> "sent", response |-> r]

\* recv returns one request and json.loads decodes it
SRecv(c, m) ==
    /\ Idle(c)
    /\ c \in clients[PortOf(c)]
    /\ Len(trace[c]) < 2 * MaxReads
    /\ trace' = [trace EXCEPT ![c] = Append(@, Event("message", m.type))]
    /\ cur' = [cur EXCEPT ![c] = m]
    /\ pc' = [pc EXCEPT ![c] = "respond"]
    /\ UNCHANGED <<storeVars, sess, resp, faults, iter, sent, idx, wire,
                   lifeVars>>

\* a session handler that writes its response twice
SSendTwice(c) ==
    /\ pc[c] = "respond"
    /\ ~ProcessRaises(cur[c])
    /\ resp' = FResponse(c, cur[c])
    /\ trace' = [trace EXCEPT ![c] = @ \o <<Sent(resp'), Sent(resp')>>]
    /\ cur' = [cur EXCEPT ![c] = NoMessage]
    /\ pc' = [pc EXCEPT ![c] = "recv"]
    /\ UNCHANGED <<storeVars, sess, faults, iter, sent, idx, wire, lifeVars>>

\* _process_message returns and the response is sent on client_sock
SSend(c) ==
    /\ pc[c] = "respond"
    /\ ~ProcessRaises(cur[c])
    /\ resp' = FResponse(c, cur[c])
    /\ trace' = [trace EXCEPT ![c] = Append(@, Sent(resp'))]
    /\ cur' = [cur EXCEPT ![c] = NoMessage]
    /\ pc' = [pc EXCEPT ![c] = "recv"]
    /\ UNCHANGED <<storeVars, sess, faults, iter, sent, idx, wire, lifeVars>>

\* the handler of c ends: the outer except logs, the finally block closes
\* the socket and deletes the client
SEnd(c, event) ==
    /\ trace' = [trace EXCEPT ![c] = Append(@, Event(event, None))]
    /\ sess' = [sess EXCEPT ![c] = "closed"]
    /\ clients' = Dropped({c})
    /\ cur' = [cur EXCEPT ![c] = NoMessage]
    /\ pc' = [pc EXCEPT ![c] = "recv"]
    /\ UNCHANGED <<storeVars, resp, faults, iter, sent, idx, wire,
                   serverVars>>

\* _process_message raises, or send raises on a socket the client has left
SProcessRaise(c) ==
    pc[c] = "respond" /\ ProcessRaises(cur[c]) /\ SEnd(c, "raise")
SSendFail(c) ==
    pc[c] = "respond" /\ ~ProcessRaises(cur[c]) /\ SEnd(c, "error")

\* recv returns bytes that json.loads rejects, returns no data, or raises
SReadFail(c, outcome) ==
    /\ Idle(c)
    /\ c \in clients[PortOf(c)]
    /\ Len(trace[c]) < 2 * MaxReads
    /\ LoopAfter(outcome) = "closed"
    /\ SEnd(c, outcome)

NextServe ==
    \/ \E c \in Conns : IAccept(c)
    \/ \E c \in Conns : \E m \in ServeRequests(c) : SRecv(c, m)
    \/ \E c \in Conns : SSend(c)
    \/ \E c \in Conns : SProcessRaise(c)
    \/ \E c \in Conns : SSendFail(c)
    \/ \E c \in Conns, o \in ReadFailures : SReadFail(c, o)

SpecServe == Init /\ [][NextServe]_vars

\* ===================================================================
\* Properties
\* ===================================================================
AckQueued(i) == [type |-> "ack", status |-> "queued", id |-> i]
AckReceived == [type |-> "ack", status |-> "received"]
AckSynced == [type |-> "ack", status |-> "synced"]

\* the phone keys of a contact store with the name filed under each
KeyNames(cs) == [p \in DOMAIN cs |-> cs[p].name]

\* no two records of a contact store carry the same phone
NoDuplicatePhones(cs) ==
    \A k1, k2 \in DOMAIN cs : cs[k1].phone = cs[k2].phone => k1 = k2

\* the phones that occur in a contact list
PhonesOf(L) == {L[j].phone : j \in 1..Len(L)} \ {None}

\* the forward steps of the status order
Forward(a, b) ==
    \/ a = "pending" /\ b \in {"sent", "failed"}
    \/ a = "sent" /\ b = "delivered"

\* C1: a send_message with an id that is not in the message store is acked,
\* and the get_messages response built from the store it leaves holds that
\* id with status "pending".
C1_FreshSendIsPending ==
    [][\A c \in SeqBT, i \in MsgIds, n \in Numbers, t \in Texts :
          (BTSendMessage(c, i, n, t, "ok") /\ i \notin DOMAIN messages) =>
              LET r == TCPResponse([type |-> "get_messages"],
                                   contacts', messages') IN
              /\ resp' = AckQueued(i)
              /\ r.type = "messages"
              /\ i \in DOMAIN r.data
              /\ r.data[i].status = "pending"]_vars

\* a get_messages response that shows a pending message
C1_Witness ==
    /\ resp.type = "messages"
    /\ \E i \in DOMAIN resp.data :
          resp.data[i].status = "pending" /\ resp.data[i].retry_count = 0

\* C2: an sms_status whose (current status, new status) pair is no forward
\* step of pending -> {sent, failed}, sent -> delivered leaves the message
\* store unchanged.
C2_BackwardStatusRejected ==
    [][\A c \in SeqBT, i \in MsgIds, s \in Statuses :
          (/\ BTSmsStatus(c, i, s, "ok")
           /\ i \in DOMAIN messages
           /\ ~Forward(messages[i].status, s)) =>
              messages' = messages]_vars

\* C3: sms_status(id, sent) on a pending message and sms_status(id,
\* delivered) on a sent message are applied and acked.
C3_SentThenDelivered ==
    [][\A c \in SeqBT, i \in MsgIds, s \in {"sent", "delivered"} :
          (/\ BTSmsStatus(c, i, s, "ok")
           /\ i \in DOMAIN messages
           /\ \/ messages[i].status = "pending" /\ s = "sent"
              \/ messages[i].status = "sent" /\ s = "delivered") =>
              /\ messages'[i].status = s
              /\ resp' = AckReceived]_vars

\* a delivery report was acked and a message stands at "delivered"
C3_Witness ==
    /\ resp = AckReceived
    /\ \E i \in DOMAIN messages :
          messages[i].status = "delivered" /\ messages[i].retry_count = 0

\* C4: a send_message for an id stored as "sent" or "delivered" leaves the
\* status and the retry_count of the record unchanged and is acked with the
\* id.
C4_ResendOfSentIsNoOp ==
    [][\A c \in SeqBT, i \in MsgIds, n \in Numbers, t \in Texts :
          (/\ BTSendMessage(c, i, n, t, "ok")
           /\ i \in DOMAIN messages
           /\ messages[i].status \in {"sent", "delivered"}) =>
              /\ messages'[i].status = messages[i].status
              /\ messages'[i].retry_count = messages[i].retry_count
              /\ resp' = AckQueued(i)]_vars

\* C5: a send_message for an id stored as "failed" sets the status to
\* "pending" and raises the retry_count by exactly one.
C5_ResendOfFailedCountsRetry ==
    [][\A c \in SeqBT, i \in MsgIds, n \in Numbers, t \in Texts :
          (/\ BTSendMessage(c, i, n, t, "ok")
           /\ i \in DOMAIN messages
           /\ messages[i].status = "failed") =>
              /\ messages'[i].status = "pending"
              /\ messages'[i].retry_count = messages[i].retry_count + 1]_vars

\* C6: from one state to the next the retry_count of a stored id never
\* decreases, and it changes only in a send_message step for an id whose
\* status was "failed".
C6_RetryCountMonotone ==
    [][\A i \in DOMAIN messages :
          i \in DOMAIN messages' =>
              /\ messages'[i].retry_count >= messages[i].retry_count
              /\ messages'[i].retry_count # messages[i].retry_count =>
                    /\ messages[i].status = "failed"
                    /\ \E c \in SeqBT, n \in Numbers, t \in Texts,
                          d \in DiskOutcomes : BTSendMessage(c, i, n, t, d)
      ]_vars

\* a send_message for m1 was acked while messages.json, whose one failed
\* write was the write of this request, still shows m1 as "failed"
C6_Witness ==
    /\ resp = AckQueued("m1")
    /\ "m1" \in DOMAIN messages
    /\ messages["m1"].status = "pending"
    /\ messages["m1"].retry_count = 0
    /\ messagesFile.state = "ok"
    /\ "m1" \in DOMAIN messagesFile.data
    /\ messagesFile.data["m1"].status = "failed"

\* C7: from every store the host reaches, a sync_contacts of a list L
\* followed at once by a second sync_contacts of L leaves the phone keys
\* and the name of each phone as the first left them, and no phone twice.
C7_SyncIdempotent ==
    \A L \in ContactLists :
        ~SyncRaises(L) =>
            LET once == SyncPrefix(contacts, L, Len(L))
                twice == SyncPrefix(once, L, Len(L)) IN
            /\ DOMAIN twice = DOMAIN once
            /\ KeyNames(twice) = KeyNames(once)
            /\ NoDuplicatePhones(once)
            /\ NoDuplicatePhones(twice)

\* a sync_contacts was acked and left both phones in the store
C7_Witness ==
    /\ resp = AckSynced
    /\ DOMAIN contacts = Phones

\* the store a sync_contacts of L leaves when every entry that can be
\* applied is applied
RECURSIVE SyncComplete(_, _, _)
SyncComplete(cs, L, k) ==
    IF k = 0 THEN cs
    ELSE IF Raises(L[k]) THEN SyncComplete(cs, L, k - 1)
    ELSE ApplyEntry(SyncComplete(cs, L, k - 1), L[k])

\* C8: a sync_contacts of two or more entries that fails part-way (an entry
\* raises, or the process is killed between entries) leaves the contact
\* store, in memory and in contacts.json, as it was before the sync or as
\* a complete sync leaves it.
C8_SyncAllOrNothing ==
    [][\A c \in SeqBT, L \in ContactLists :
          (/\ Len(L) >= 2
           /\ \/ \E d \in DiskOutcomes : BTSyncContactsRaise(c, L, d)
              \/ \E k \in 1..Len(L) : BTSyncContactsCrash(c, L, k)) =>
              LET old == KeyNames(contacts)
                  new == KeyNames(SyncComplete(contacts, L, Len(L)))
                  oldFile == KeyNames(Load(contactsFile)) IN
              /\ KeyNames(contacts') \in {old, new}
              /\ KeyNames(Load(contactsFile')) \in {oldFile, old, new}]_vars

\* C9: after a completed sync_contacts with list L the contact set holds
\* exactly the phones that occur in L.
C9_SyncReplaces ==
    [][\A c \in SeqBT, L \in ContactLists :
          BTSyncContacts(c, L, "ok") => DOMAIN contacts' = PhonesOf(L)]_vars

\* the ids of the send_message requests issued so far in SpecConc
Issued == UNION {{IdPool[c][k] : k \in 1..sent[c]} : c \in BTConns}

\* C10: when the device connections have issued their send_message requests
\* with pairwise distinct ids and every request has been answered, the
\* message store holds one record per issued id and no other: N*K records
\* once each of N connections has issued K.
C10_ConcurrentSendsAllStored ==
    (\A c \in Conns : pc[c] = "recv") =>
        /\ DOMAIN messages = Issued
        /\ \A i \in Issued : messages[i].id = i
        /\ (\A c \in BTConns : sent[c] = SendsPerConn) =>
              Cardinality(DOMAIN messages) =
                  Cardinality(BTConns) * SendsPerConn

\* every connection has issued all its send_message requests, all are
\* answered, and the store holds N*K records
C10_Witness ==
    /\ \A c \in Conns : pc[c] = "recv"
    /\ \A c \in BTConns : sent[c] = SendsPerConn
    /\ Cardinality(DOMAIN messages) = Cardinality(BTConns) * SendsPerConn

AckIdentified == [type |-> "ack", status |-> "identified"]

\* the entries of a contact list are objects with non-empty phones, no
\* phone twice
DistinctPhones(L) ==
    /\ \A j \in 1..Len(L) : L[j].dict /\ L[j].phone # None
    /\ \A j, k \in 1..Len(L) : L[j].phone = L[k].phone => j = k

\* C12: on an empty contact store, once the device connection has been
\* answered for its identify, a sync_contacts of a list with distinct
\* non-empty phones is acked, and the get_contacts response the console
\* port builds from the store it leaves has exactly the phones of the list
\* as keys, each with the name the list gives it.
C12_SyncThenConsoleGetContacts ==
    [][(resp = AckIdentified /\ contacts = EmptyMap) =>
       \A c \in SeqBT, L \in ContactLists :
          (DistinctPhones(L) /\ BTSyncContacts(c, L, "ok")) =>
              LET r == TCPResponse([type |-> "get_contacts"],
                                   contacts', messages') IN
              /\ resp' = AckSynced
              /\ r.type = "contacts"
              /\ DOMAIN r.data = PhonesOf(L)
              /\ \A j \in 1..Len(L) :
                    /\ r.data[L[j].phone].name = L[j].name
                    /\ r.data[L[j].phone].phone = L[j].phone]_vars

\* a get_contacts response on the console port that shows Alice and Bob
\* under their own phones
C12_Witness ==
    /\ resp.type = "contacts"
    /\ DOMAIN resp.data = Phones
    /\ resp.data["+46701234567"].name = "Alice"
    /\ resp.data["+46702345678"].name = "Bob"
    /\ sess["cc1"] = "open"

\* C13: an sms_status(id, delivered) that follows the ack of the
\* send_message which queued that id, the message still pending, is acked,
\* and the get_messages response built from the store it leaves shows the
\* id with status "delivered" and retry_count 0.
C13_DeliveredWithoutSent ==
    [][\A c \in SeqBT, i \in MsgIds :
          (/\ BTSmsStatus(c, i, "delivered", "ok")
           /\ resp = AckQueued(i)
           /\ i \in DOMAIN messages
           /\ messages[i].status = "pending") =>
              LET r == TCPResponse([type |-> "get_messages"],
                                   contacts', messages') IN
              /\ resp' = AckReceived
              /\ r.type = "messages"
              /\ r.data[i].status = "delivered"
              /\ r.data[i].retry_count = 0]_vars

\* a get_messages response that shows m1 delivered while messages.json
\* holds nothing but that record
C13_Witness ==
    /\ resp.type = "messages"
    /\ DOMAIN resp.data = {"m1"}
    /\ resp.data["m1"].status = "delivered"
    /\ resp.data["m1"].retry_count = 0
    /\ messagesFile.state = "ok"
    /\ messagesFile.data = resp.data

\* a response carries the request type in one of its fields
NamesType(r, t) == \E f \in DOMAIN r : r[f] = t

\* C14: a request of an unrecognised type, on either port, leaves the
\* contact store and the message store unchanged, and its response is an
\* error payload that names the type.
C14_UnknownTypeNamed ==
    [][/\ \A c \in SeqBT, t \in BTUnknownTypes :
            BTUnknown(c, t) =>
                /\ storeVars' = storeVars
                /\ resp'.type = "error"
                /\ NamesType(resp', t)
       /\ \A c \in SeqTCP, t \in TCPUnknownTypes :
            TCPUnknown(c, t) =>
                /\ storeVars' = storeVars
                /\ resp'.type = "error"
                /\ NamesType(resp', t)]_vars

\* C16: an sms_status for an id that is not in the message store leaves
\* the store and messages.json unchanged and is acked.
C16_UnknownIdAcked ==
    [][\A c \in SeqBT, i \in MsgIds, s \in Statuses :
          (BTSmsStatus(c, i, s, "ok") /\ i \notin DOMAIN messages) =>
              /\ messages' = messages
              /\ messagesFile' = messagesFile
              /\ resp' = AckReceived]_vars

\* a status report was acked while the store holds no record at all
C16_Witness ==
    /\ resp = AckReceived
    /\ messages = EmptyMap
    /\ messagesFile = MissingFile

\* C11: a get_contacts answered on one connection while the sync_contacts
\* of a list of two or more entries is in its loop on another connection
\* returns the contact set that sync met or the set it leaves when complete.
C11_ReadDuringSyncNotPartial ==
    [][\A r \in Readers, s \in Syncers :
          (/\ pc[s] = "sync"
           /\ pc[r] = "respond"
           /\ cur[r].type = "get_contacts"
           /\ Len(cur[s].contacts) >= 2
           /\ ~SyncRaises(cur[s].contacts)
           /\ CRespond(r)) =>
              LET L == cur[s].contacts IN
              /\ resp'.type = "contacts"
              /\ resp'.data \in {cur[s].before,
                                 SyncPrefix(cur[s].before, L, Len(L))}]_vars

\* C17: a send_message without id, to or text, and an sms_status without id
\* or status, is answered with an error payload, leaves both stores and
\* their files unchanged, and leaves the connection open.
C17_MissingFieldRejected ==
    [][\A c \in SeqBT :
          /\ \A i \in FieldIds, n \in FieldNumbers, t \in FieldTexts :
                (None \in {i, n, t} /\ BTSendMessage(c, i, n, t, "ok")) =>
                    /\ resp'.type = "error"
                    /\ storeVars' = storeVars
                    /\ sess'[c] = "open"
          /\ \A i \in FieldIds, st \in FieldStatuses :
                (None \in {i, st} /\ BTSmsStatus(c, i, st, "ok")) =>
                    /\ resp'.type = "error"
                    /\ storeVars' = storeVars
                    /\ sess'[c] = "open"]_vars

\* the types of the requests a handler dispatched, in order
Dispatched(tr) ==
    LET ms == SelectSeq(tr, LAMBDA ev : ev.event = "message") IN
    [j \in 1..Len(ms) |-> ms[j].type]

\* the types of the requests whose text ends within the bytes of one read
RECURSIVE Completed(_)
Completed(data) ==
    IF Len(data) < 3 THEN <<>>
    ELSE IF data[1] = "{" /\ \E k \in 3..Len(data) : data[k] = "}"
         THEN <<data[2]>> \o Completed(Tail(data))
         ELSE Completed(Tail(data))

\* a byte stream made of request texts only
Clean(w) == \A j \in 1..Len(w) : w[j] # "x"

\* the last turn of a handler dispatched a request of unknown type
AfterUnknown(tr) ==
    tr # <<>> /\ tr[Len(tr)] = Event("message", "frobnicate")

\* C15: a read that holds a request of an unrecognised type is answered with
\* an error payload and leaves the session open, and a read that follows it
\* with a recognised request is dispatched, gets the response of its type
\* and leaves the session open.
C15_UnknownTypeKeepsSession ==
    [][\A c \in SeqBT \cup SeqTCP, n \in 1..BufSize :
          FRead(c, n) =>
              LET data == SubSeq(wire[c], 1, n) IN
              /\ data = Json("frobnicate", 0) =>
                    /\ sess'[c] = "open"
                    /\ resp'.type = "error"
                    /\ AfterUnknown(trace'[c])
              /\ \A r \in FrameRequests(c) :
                    (/\ AfterUnknown(trace[c])
                     /\ r.type # "frobnicate"
                     /\ data = Json(r.type, r.pad)) =>
                        /\ sess'[c] = "open"
                        /\ resp' = FResponse(c, [type |-> r.type])
                        /\ resp'.type # "error"
                        /\ Dispatched(trace'[c]) =
                              Append(Dispatched(trace[c]), r.type)]_vars

\* on the device port a frobnicate was answered with an error, and the ping
\* read next was answered with a pong
C15_Witness ==
    /\ sess["bt1"] = "open"
    /\ trace["bt1"] = <<Event("message", "frobnicate"),
                        Event("message", "ping")>>
    /\ resp = [type |-> "pong"]

\* C18: on a connection whose byte stream holds well-formed requests only,
\* every read leaves the session open and dispatches, in order and once
\* each, exactly the requests whose text ends within it, however the stream
\* is cut into reads.
C18_FramingIndependent ==
    [][\A c \in SeqBT \cup SeqTCP, n \in 1..BufSize :
          (FRead(c, n) /\ Clean(wire[c])) =>
              /\ sess'[c] = "open"
              /\ Dispatched(trace'[c]) =
                    Dispatched(trace[c]) \o Completed(SubSeq(wire[c], 1, n))
      ]_vars

\* C19: a read whose bytes do not parse as JSON dispatches nothing, closes
\* the connection, writes no response and leaves both stores and their
\* files unchanged.
C19_InvalidJsonCloses ==
    [][\A c \in SeqBT \cup SeqTCP, n \in 1..BufSize :
          (FRead(c, n) /\ ~Parses(SubSeq(wire[c], 1, n))) =>
              /\ sess'[c] = "closed"
              /\ Dispatched(trace'[c]) = Dispatched(trace[c])
              /\ resp' = resp
              /\ storeVars' = storeVars]_vars

\* the console connection was closed on bytes that are no JSON, after a
\* get_status that was answered
C19_Witness ==
    /\ sess["cc1"] = "closed"
    /\ trace["cc1"] = <<Event("message", "get_status"),
                        Event("invalid", None)>>
    /\ resp.type = "status"
    /\ storeVars = <<EmptyMap, EmptyMap, MissingFile, MissingFile>>

\* C20: a read timeout leaves the session open and changes nothing, and a
\* request read after any run of timeouts is dispatched and answered.
C20_TimeoutKeepsSession ==
    [][\A c \in SeqBT \cup SeqTCP :
          /\ FTimeout(c) =>
                /\ sess'[c] = "open"
                /\ resp' = resp
                /\ storeVars' = storeVars
          /\ \A n \in 1..BufSize :
                (/\ FRead(c, n)
                 /\ trace[c] # <<>>
                 /\ trace[c][Len(trace[c])].event = "timeout"
                 /\ Parses(SubSeq(wire[c], 1, n))) =>
                    LET m == Loads(SubSeq(wire[c], 1, n)) IN
                    /\ sess'[c] = "open"
                    /\ resp' = FResponse(c, m)
                    /\ Dispatched(trace'[c]) =
                          Append(Dispatched(trace[c]), m.type)]_vars

\* on the device port two read timeouts in a row were followed by a ping
\* that was answered with a pong
C20_Witness ==
    /\ sess["bt1"] = "open"
    /\ trace["bt1"] = <<Event("timeout", None), Event("timeout", None),
                        Event("message", "ping")>>
    /\ resp = [type |-> "pong"]

\* C24: when the process starts on a contacts.json or a messages.json that
\* is missing or cannot be parsed, the store of that file starts empty, the
\* store of a file that parses starts with what the file holds, and the
\* host is up (no connection, nothing answered yet).
C24_StartsEmptyOnBadFile ==
    [][Restart =>
          /\ contactsFile.state # "ok" => contacts' = EmptyMap
          /\ messagesFile.state # "ok" => messages' = EmptyMap
          /\ contactsFile.state = "ok" => contacts' = contactsFile.data
          /\ messagesFile.state = "ok" => messages' = messagesFile.data
          /\ \A c \in Conns : sess'[c] = "closed"]_vars

\* the host was started on a messages.json that a failed write had left
\* unparsable, and a device has connected to it since
C24_Witness ==
    /\ messagesFile = CorruptFile
    /\ messages = EmptyMap
    /\ sess["bt1"] = "open"

\* C25: both stores equal what a restart would load from their files (the
\* files of the last completed mutating request, every save having
\* succeeded).
C25_PersistenceRoundTrip ==
    /\ Load(contactsFile) = contacts
    /\ Load(messagesFile) = messages

\* C26: the status of every stored message is one of pending, sent,
\* delivered, failed.
C26_StatusInRange ==
    \A i \in DOMAIN messages :
        messages[i].status \in {"pending", "sent", "delivered", "failed"}

\* C27: in every step of the running host (any step but a start of the
\* process) every id of the message store stays in the message store.
C27_MessagesNeverDeleted ==
    [][\/ DOMAIN messages \subseteq DOMAIN messages'
       \/ Restart
       \/ \E c \in SeqBT, L \in FaultLists, k \in 1..MaxContacts :
             BTSyncContactsCrash(c, L, k)]_vars

\* get_messages shows m1 reported delivered, after the write of that report
\* had failed
C27_Witness ==
    /\ resp.type = "messages"
    /\ "m1" \in DOMAIN resp.data
    /\ resp.data["m1"].status = "delivered"
    /\ messagesFile = CorruptFile

\* C28: get_status, get_contacts, get_messages and requests of unrecognised
\* type on a console connection leave the contact store, the message store
\* and both files unchanged.
C28_ConsoleReadOnly ==
    [][\A c \in SeqTCP :
          (\/ TCPGetStatus(c)
           \/ TCPGetContacts(c)
           \/ TCPGetMessages(c)
           \/ \E t \in TCPUnknownTypes : TCPUnknown(c, t)) =>
              storeVars' = storeVars]_vars

\* the console was told "Unknown request" while both stores were full
C28_Witness ==
    /\ resp = [type |-> "error", message |-> "Unknown request"]
    /\ DOMAIN messages = MsgIds
    /\ DOMAIN contacts = Phones

\* the identify requests a connection has sent since it was accepted
Identifies(c) == SelectSeq(trace[c], LAMBDA ev : ev.event = "identified")

\* the device id of a connection: the device its last identify named, or
\* an anonymous id made from its address
BoundDevice(c) ==
    IF Identifies(c) = <<>> THEN c
    ELSE Identifies(c)[Len(Identifies(c))].type

\* C29: the from_device of the record a send_message creates is the device
\* named by the identify sent earlier on that connection, and an anonymous
\* id made from the connection's address when no identify was sent.
C29_FromDeviceIsIdentified ==
    [][\A c \in BTConns, i \in FaultIds, n \in Numbers, t \in FaultTexts :
          BTSendMessage(c, i, n, t, "ok") =>
              messages'[i].from_device = BoundDevice(c)]_vars

\* a device is online: connected, and identified on that connection
Online(d) == sess[d] = "open" /\ Identifies(d) # <<>>

\* C30: the devices_connected of a get_status response is the number of
\* devices online (0 when no device is connected).
C30_DevicesConnectedCounts ==
    [][\A c \in TCPConns :
          TCPGetStatus(c) =>
              resp'.devices_connected =
                  Cardinality({d \in BTConns : Online(d)})]_vars

\* a server that does not run: no accept loop condition, no open server
\* socket, no stored client
Stopped(p) ==
    /\ ~running[p]
    /\ listener[p] \in {"none", "closed"}
    /\ clients[p] = {}

\* a stop() call on the server p completes in this step
StopsServer(p) == ServerStop(p) \/ HostStop

\* a connection with an open socket and a running handler thread
Live(c) == sess[c] = "open" /\ c \in clients[PortOf(c)]

\* C21: when the bind of the device listener or of the console listener
\* fails, SBMSHost.start does not bring the host to its started state, and
\* afterwards no server runs or listens
C21_BindFailureFailsFast ==
    [][\A bt \in BindOutcomes, tcp \in BindOutcomes :
          (HostStart(bt, tcp) /\ "failed" \in {bt, tcp})
          => /\ host' # "started"
             /\ \A p \in Ports : ~running'[p] /\ listener'[p] # "listening"
      ]_vars

\* C22: every stop() call leaves its server stopped (running false, server
\* socket closed, client map empty), and a stop() call on a stopped server
\* changes neither of these nor any session of that server
C22_StopIdempotent ==
    [][\A p \in Ports :
          StopsServer(p)
          => /\ Stopped(p)'
             /\ Stopped(p)
                => /\ running'[p] = running[p]
                   /\ listener'[p] = listener[p]
                   /\ clients'[p] = clients[p]
                   /\ \A c \in Conns : PortOf(c) = p => sess'[c] = sess[c]
      ]_vars

\* a server that was listening has taken two stop() calls of the host
C22_Witness ==
    /\ host = "stopped"
    /\ stops["tcp"] = 2
    /\ listener["tcp"] = "closed"
    /\ Stopped("tcp")

\* C23: once a stop() call of a server has returned and no other is under
\* way, no connection of that server has an open socket and a running
\* handler, whatever the accept loop did meanwhile
C23_StopClosesEverySession ==
    \A p \in Ports :
        (stops[p] >= 1 /\ stopping[p] = "idle")
        => \A c \in Conns : PortOf(c) = p => ~Live(c)

\* the handler of c ends in this step on a failed read, a failed send or an
\* exception of _process_message
SessionFails(c) ==
    \/ \E o \in ReadFailures : SReadFail(c, o)
    \/ SProcessRaise(c)
    \/ SSendFail(c)

\* C31: when recv on a connection returns no data or raises, the handler
\* ends, the socket is closed and the connection is deleted from its
\* server's client map; after every step the map of a server holds no
\* connection whose handler has ended.
C31_EndOfStreamReleases ==
    [][/\ \A c \in Conns :
             (SReadFail(c, "eof") \/ SReadFail(c, "error"))
             => /\ sess'[c] = "closed"
                /\ pc'[c] = "recv"
                /\ c \notin clients'[PortOf(c)]
       /\ \A c \in Conns : sess'[c] = "closed" => c \notin clients'[PortOf(c)]
      ]_vars

\* the device session bt1 has ended on a socket error next to the open
\* session bt2, and the device server's map holds bt2 alone
C31_Witness ==
    /\ sess["bt1"] = "closed"
    /\ trace["bt1"] = <<Event("error", None)>>
    /\ sess["bt2"] = "open"
    /\ clients["bt"] = {"bt2"}

\* C33: a step in which the session of one connection ends on a parse
\* error, a read or write error or a handler exception leaves every other
\* session as it was (open or closed, its handler where it stood, its entry
\* in the client map) and leaves both accept loops running.
C33_SessionsIsolated ==
    [][\A c \in Conns :
          SessionFails(c)
          => /\ \A o \in Conns \ {c} :
                   /\ sess'[o] = sess[o]
                   /\ pc'[o] = pc[o]
                   /\ cur'[o] = cur[o]
                   /\ trace'[o] = trace[o]
                   /\ (o \in clients'[PortOf(o)]) = (o \in clients[PortOf(o)])
             /\ running' = running
             /\ listener' = listener
             /\ accepting' = accepting
      ]_vars

\* the session of bt1 has ended on an exception of _process_message while
\* bt2 waited for its response; bt2 and the console were answered
C33_Witness ==
    /\ sess["bt1"] = "closed"
    /\ trace["bt1"] = <<Event("message", "sync_contacts"), Event("raise", None)>>
    /\ sess["bt2"] = "open"
    /\ Len(trace["bt2"]) = 2
    /\ trace["bt2"][2] = Sent([type |-> "pong"])
    /\ sess["cc1"] = "open"
    /\ Len(trace["cc1"]) = 2
    /\ trace["cc1"][2].event = "sent"
    /\ resp.type = "status"

\* the k-th thing the handler of c did was to decode a request
Decoded(c, k) == trace[c][k].event = "message"

SyncDone(c) == trace[c] # <<>> /\ pc[c] = "recv"

\* the store after sync_from_device of the list L on the store cs
SyncAll(cs, L) == SyncPrefix(cs, L, Len(L))

\* C32: once the sync_contacts requests of two connections have both been
\* acked, the contact store is the store that the two syncs leave when one
\* runs after the other, in one of the two orders.
C32_ConcurrentSyncsSerialisable ==
    (SyncDone("bt1") /\ SyncDone("bt2")) =>
        LET A == trace["bt1"][1].contacts
            B == trace["bt2"][1].contacts IN
        contacts \in {SyncAll(SyncAll(EmptyMap, A), B),
                      SyncAll(SyncAll(EmptyMap, B), A)}

\* the outcomes of a write that fails
FailedWrites == DiskOutcomes \ {"ok"}

\* the store `new` holds every record of `old` but those under the keys ks
Keeps(old, new, ks) ==
    \A k \in DOMAIN old \ ks : k \in DOMAIN new /\ new[k] = old[k]

\* C34: a send_message, a sms_status for a known id or a sync_contacts
\* whose write of the backing file fails keeps every record the store
\* held, applies its change to the store, is acked as usual, and leaves
\* the session open.
C34_WriteFailureAbsorbed ==
    [][faults' = faults + 1 =>
        /\ \A c \in SeqBT, i \in FaultIds, n \in Numbers, t \in FaultTexts,
              d \in FailedWrites :
                BTSendMessage(c, i, n, t, d)
                => /\ Keeps(messages, messages', {i})
                   /\ i \in DOMAIN messages'
                   /\ messages'[i].text = t /\ messages'[i].to_number = n
                   /\ contacts' = contacts
                   /\ resp' = AckQueued(i)
                   /\ sess'[c] = "open"
        /\ \A c \in SeqBT, i \in DOMAIN messages, st \in Statuses,
              d \in FailedWrites :
                BTSmsStatus(c, i, st, d)
                => /\ Keeps(messages, messages', {i})
                   /\ messages'[i] = [messages[i] EXCEPT !.status = st]
                   /\ contacts' = contacts
                   /\ resp' = AckReceived
                   /\ sess'[c] = "open"
        /\ \A c \in SeqBT, L \in SaveLists, d \in FailedWrites :
                BTSyncContacts(c, L, d)
                => /\ Keeps(contacts, contacts', PhonesOf(L))
                   /\ PhonesOf(L) \subseteq DOMAIN contacts'
                   /\ messages' = messages
                   /\ resp' = AckSynced
                   /\ sess'[c] = "open"
      ]_vars

\* m1 was queued and acked on an open session while the write of
\* messages.json failed half way
C34_Witness ==
    /\ faults = 1
    /\ resp = AckQueued("m1")
    /\ "m1" \in DOMAIN messages
    /\ messagesFile = CorruptFile
    /\ sess["bt1"] = "open"

\* C35: a send_message for an id that the store holds with status pending
\* leaves the record of that id as it is and is acked with the id.
C35_ResendOfPendingIsNoOp ==
    [][\A i \in DOMAIN messages :
          messages[i].status = "pending" =>
             \A c \in SeqBT, n \in Numbers, t \in Texts :
                BTSendMessage(c, i, n, t, "ok")
                => messages'[i] = messages[i] /\ resp' = AckQueued(i)
      ]_vars

\* C37: the contact stored under a key has that key as its phone, and the
\* message stored under a key has that key as its id.
C37_RecordsAgreeWithKeys ==
    /\ \A k \in DOMAIN contacts : contacts[k].phone = k
    /\ \A k \in DOMAIN messages : messages[k].id = k

\* both phones are stored and m1 is stored
C37_Witness ==
    /\ DOMAIN contacts = Phones
    /\ "m1" \in DOMAIN messages
    /\ contactsFile.state = "ok"

\* the list holds an entry without a phone
LacksPhone(L) == \E j \in 1..Len(L) : L[j].dict /\ L[j].phone = None

\* C38: when the sync_contacts of a list with an entry that has no phone is
\* answered, the store holds the contacts it held before and one contact
\* under each phone of the list, none under a missing phone, and the
\* answer is the ack.
C38_SyncSkipsEntriesWithoutPhone ==
    [][\A s \in Syncers :
          (/\ pc[s] = "respond"
           /\ cur[s].type = "sync_contacts"
           /\ LacksPhone(cur[s].contacts)
           /\ CRespond(s))
          => LET L == cur[s].contacts
                 B == cur[s].before IN
             /\ DOMAIN contacts = DOMAIN B \cup PhonesOf(L)
             /\ None \notin DOMAIN contacts
             /\ Keeps(B, contacts, PhonesOf(L))
             /\ \A p \in PhonesOf(L) :
                   /\ contacts[p].phone = p
                   /\ \E j \in 1..Len(L) :
                         L[j].phone = p /\ contacts[p].name = L[j].name
             /\ resp' = AckSynced
             /\ sess'[s] = "open"
      ]_vars

\* the loop is through a list of an entry without a phone and an entry with
\* one, and the store holds the one contact
C38_Witness ==
    /\ pc["bt1"] = "respond"
    /\ cur["bt1"].type = "sync_contacts"
    /\ Len(cur["bt1"].contacts) = 2
    /\ cur["bt1"].contacts[1].dict /\ cur["bt1"].contacts[1].phone = None
    /\ cur["bt1"].contacts[2].phone \in Phones
    /\ DOMAIN contacts = {cur["bt1"].contacts[2].phone}

\* C39: identify, ping and get_contacts on the device port change neither
\* store; a step that changes the contact store is a sync_contacts, and a
\* step that changes the message store is a send_message or a sms_status.
C39_DeviceRequestFrames ==
    [][/\ \A c \in SeqBT :
             (BTIdentify(c) \/ BTPing(c) \/ BTGetContacts(c))
             => contacts' = contacts /\ messages' = messages
       /\ contacts' # contacts =>
             \E c \in SeqBT, L \in ShortLists :
                BTSyncContacts(c, L, "ok") \/ BTSyncContactsRaise(c, L, "ok")
       /\ messages' # messages =>
             \/ \E c \in SeqBT, i \in MsgIds, n \in Numbers, t \in Texts :
                    BTSendMessage(c, i, n, t, "ok")
             \/ \E c \in SeqBT, i \in MsgIds, st \in Statuses :
                    BTSmsStatus(c, i, st, "ok")
      ]_vars

\* a ping was answered while both stores hold records
C39_Witness ==
    /\ resp = [type |-> "pong"]
    /\ DOMAIN contacts = Phones
    /\ DOMAIN messages = MsgIds

\* C40: when stop() of a server was called while its start() was binding,
\* then once stop() has returned and start() is through its binding the
\* server is not running: its running flag is false.
C40_StopWinsOverStart ==
    \A p \in Ports :
        (/\ stops[p] >= 1
         /\ stopping[p] = "idle"
         /\ accepting[p].at \notin {"none", "start"} \cup Binding)
        => ~running[p]

====
